---------------------------- MODULE Spec2Model ----------------------------
(***************************************************************************)
(* Model of RGB2YCbCr.cpp: the fixed-point RGB -> YCbCr converter          *)
(* (RGB2YCbCr_smarthls), the floating-point reference (RGB2YCbCr_sw), the  *)
(* tolerance comparator (compareAndReport) and the testbench (main).       *)
(*                                                                         *)
(* Library semantics the source relies on (SmartHLS ap_fixpt / hls::FIFO): *)
(*  - ap_fixpt<W,IW> defaults to AP_TRN quantisation and AP_WRAP overflow; *)
(*    a value is kept as a raw integer in units of 2^-(W-IW).              *)
(*  - +, -, * return a result type wide enough to hold every result        *)
(*    (a product has W1+W2 bits, a sum one more bit than its operands),    *)
(*    so no bit is lost before the value is narrowed by an assignment.     *)
(*  - x >> n keeps the type of x and shifts the raw bits arithmetically.   *)
(*  - assigning to ap_uint<8> drops the fraction bits and the high bits.   *)
(*  - hls::FIFO<T>(depth) is a bounded first-in first-out queue; read      *)
(*    waits for an item and write waits for room.                          *)
(***************************************************************************)
EXTENDS Integers, Sequences, FiniteSets, TLC

VARIABLES
    i, j, k,          \* main: the three loop counters
    in,               \* main: RGB in
    out,              \* main: YCbCr out
    ycbcr,            \* main: the tuple returned by RGB2YCbCr_sw
    input_fifo,       \* main: hls::FIFO<RGB> input_fifo(5)
    output_fifo,      \* main: hls::FIFO<YCbCr> output_fifo(5)
    err,              \* main: int err
    pc,               \* main: position in the loop body
    verdict,          \* main: the PASS / FAIL line printed
    hist,             \* history: every sample written to input_fifo so far
    outs              \* history: every sample read from output_fifo so far

vars == <<i, j, k, in, out, ycbcr, input_fifo, output_fifo, err, pc, verdict,
          hist, outs>>

---------------------------------------------------------------------------
(* Program constants *)

THRESHOLD == 5

RGB_BITWIDTH == 8

YCBCR_BITWIDTH == 8

FIXPT_W == 18

FIXPT_IW == 12

FIFO_DEPTH == 5

SWEEP == 64

MaxRGB == 2^RGB_BITWIDTH - 1

\* One unit of the integer part in raw fixpt_t units: 2^(18-12) = 64.
Scale == 2^(FIXPT_W - FIXPT_IW)

RGB(r, g, b) == [R |-> r, G |-> g, B |-> b]

YCbCr(y, cb, cr) == [Y |-> y, Cb |-> cb, Cr |-> cr]

---------------------------------------------------------------------------
(* ap_fixpt<18,12> arithmetic on raw integers *)

\* Two's complement wrap of x to w bits (AP_WRAP).
WrapS(x, w) == ((x + 2^(w - 1)) % 2^w) - 2^(w - 1)

\* Mutant of fixpt_t: 8 fraction bits instead of 6.
fixpt_t_q8(milli) == WrapS((milli * 2^8) \div 1000, FIXPT_W)

\* fixpt_t(c) for the decimal literal c = milli / 1000: the raw value is
\* c * 2^6 with the bits below 2^-6 dropped (AP_TRN), wrapped to 18 bits.
fixpt_t(milli) == WrapS((milli * Scale) \div 1000, FIXPT_W)

\* fixpt_t * ap_uint<8>: exact, the product type has room for every bit.
Mul(c, u) == c * u

\* Mutant of Shr8: the shift left out.
Shr8_none(x) == x

\* x >> 8 on a fixed-point value: arithmetic shift of the raw bits.
Shr8(x) == x \div 2^8

\* Narrowing a fixed-point value to ap_uint<8>: the integer part (fraction
\* bits dropped towards minus infinity), low 8 bits.
ToU8(raw) == (raw \div Scale) % 2^YCBCR_BITWIDTH

\* The coefficient-times-channel products of lines 42-44.
ProdsY(p) == << Mul(fixpt_t(65738), p.R), Mul(fixpt_t(129057), p.G),
                Mul(fixpt_t(25064), p.B) >>

ProdsCb(p) == << Mul(fixpt_t(37945), p.R), Mul(fixpt_t(74494), p.G),
                 Mul(fixpt_t(112439), p.B) >>

ProdsCr(p) == << Mul(fixpt_t(112439), p.R), Mul(fixpt_t(94154), p.G),
                 Mul(fixpt_t(18285), p.B) >>

\* The three-term accumulators, before the shift.
AccY(p) == ProdsY(p)[1] + ProdsY(p)[2] + ProdsY(p)[3]

AccCb(p) == ProdsCb(p)[1] + ProdsCb(p)[2] - ProdsCb(p)[3]

AccCr(p) == ProdsCr(p)[1] - ProdsCr(p)[2] - ProdsCr(p)[3]

\* Mutant of FixY: the luma offset 16 of BT.601 in place of 4.
FixY_offset16(p) == fixpt_t(16000) + Shr8(AccY(p)) + fixpt_t(500)

\* The right-hand sides of lines 42-44 as raw fixed-point values, before
\* they are narrowed to the 8-bit fields of ycbcr.
FixY(p) == fixpt_t(4000) + Shr8(AccY(p)) + fixpt_t(500)

FixCb(p) == fixpt_t(128000) - Shr8(AccCb(p)) + fixpt_t(500)

FixCr(p) == fixpt_t(128000) + Shr8(AccCr(p)) + fixpt_t(500)

\* The YCbCr sample RGB2YCbCr_smarthls computes from the RGB sample p.
Convert(p) == YCbCr(ToU8(FixY(p)), ToU8(FixCb(p)), ToU8(FixCr(p)))

---------------------------------------------------------------------------
(* IEEE-754 binary32 arithmetic, as far as line 68 needs it: non-negative  *)
(* values [m |-> mantissa, e |-> exponent] meaning m * 2^e, with m = 0 or  *)
(* 2^23 <= m < 2^24, rounded to nearest, ties to even.                     *)

FZero == [m |-> 0, e |-> 0]

\* The float literals of line 68, each the binary32 nearest to the decimal.
F0299 == [m |-> 10032775, e |-> -25]

F0587 == [m |-> 9848226, e |-> -24]

F0114 == [m |-> 15300821, e |-> -27]

\* q (below 2^24 + 1) with exponent e, renormalised after a round-up.
FNorm(q, e) == IF q = 2^24 THEN [m |-> 2^23, e |-> e + 1] ELSE [m |-> q, e |-> e]

\* The number of bits by which hi * 2^12 (+ 12 low bits) exceeds 24 bits.
RECURSIVE ExcessBits(_, _)
ExcessBits(hi, s) == IF hi < 2^(12 + s) THEN s ELSE ExcessBits(hi, s + 1)

Float32 == [m : Nat, e : Int]

\* float * uint8_t (the integer converts to float exactly): the exact
\* product f.m * r is held in two 12-bit limbs, then rounded to 24 bits.
FMulU8[f \in Float32, r \in Nat] ==
    IF r = 0 THEN FZero
    ELSE LET lo  == (f.m % 4096) * r
             hi  == (f.m \div 4096) * r + lo \div 4096
             pl  == lo % 4096
             s   == ExcessBits(hi, 0)
             q   == hi * 2^(12 - s) + pl \div 2^s
             rem == pl % 2^s
             up  == s > 0 /\ (rem > 2^(s - 1) \/ (rem = 2^(s - 1) /\ q % 2 = 1))
         IN  FNorm(IF up THEN q + 1 ELSE q, f.e + s)

\* float + float for non-negative operands: the smaller operand is aligned
\* with guard, round and sticky bits, the sum rounded to 24 bits.
FAdd[x \in Float32, y \in Float32] ==
    IF x.m = 0 THEN y
    ELSE IF y.m = 0 THEN x
    ELSE LET big == IF x.e >= y.e THEN x ELSE y
             sm  == IF x.e >= y.e THEN y ELSE x
             d   == big.e - sm.e
             sh  == IF d >= 27 THEN 0 ELSE (sm.m * 8) \div 2^d
             st  == IF d >= 27 THEN 1
                    ELSE IF (sm.m * 8) % 2^d # 0 THEN 1 ELSE 0
             S   == IF sh % 2 = 1 THEN sh ELSE sh + st
             T0  == big.m * 8 + S
             cy  == T0 >= 2^27
             T   == IF cy THEN (T0 \div 2) + (IF (T0 \div 2) % 2 = 0 THEN T0 % 2 ELSE 0)
                    ELSE T0
             e   == IF cy THEN big.e + 1 ELSE big.e
             q   == T \div 8
             rem == T % 8
             up  == rem > 4 \/ (rem = 4 /\ q % 2 = 1)
         IN  FNorm(IF up THEN q + 1 ELSE q, e)

\* A float below 2^24 as the fraction num / den.
FNum(x) == IF x.e >= 0 THEN x.m * 2^(x.e) ELSE x.m

FDen(x) == IF x.e >= 0 THEN 1 ELSE 2^(-x.e)

---------------------------------------------------------------------------
(* The reference converter *)

\* clamp(value) for value = num / den (den > 0): min with 255, max with 0,
\* then the cast to uint8_t drops the fraction.
clamp(num, den) ==
    IF num < 0 THEN 0
    ELSE IF num \div den >= 255 THEN 255
    ELSE num \div den

\* Line 68, evaluated in binary32.
SwY(p) == FAdd[FAdd[FMulU8[F0299, p.R], FMulU8[F0587, p.G]], FMulU8[F0114, p.B]]

\* Line 69 in thousandths and line 70 in ten-thousandths.  The source
\* evaluates both in double and narrows the result to float; the exact
\* value is a multiple of 10^-3 (10^-4), so it is an integer or at least
\* 10^-4 away from one, while the double rounding errors (below 2^-40) and
\* the narrowing to float (below 2^-16) move it by less than that, and an
\* integer below 256 is a float: the value clamp truncates falls on the
\* same side of every integer as the exact value.
SwCbNum(p) == -169 * p.R - 332 * p.G + 500 * p.B + 128000

SwCrNum(p) == 5000 * p.R - 4190 * p.G - 813 * p.B + 1280000

RGB2YCbCr_sw(p) ==
    YCbCr(clamp(FNum(SwY(p)), FDen(SwY(p))),
          clamp(SwCbNum(p), 1000),
          clamp(SwCrNum(p), 10000))

---------------------------------------------------------------------------
(* The comparator *)

Abs(x) == IF x < 0 THEN -x ELSE x

\* Mutant of compareAndReport: a difference equal to the threshold counts.
compareAndReport_ge(actual, expected, threshold) ==
    IF Abs(actual - expected) >= threshold THEN 1 ELSE 0

compareAndReport(actual, expected, threshold) ==
    IF Abs(actual - expected) > threshold THEN 1 ELSE 0

\* The three calls of lines 113-115.
Mismatches(o, e) ==
    compareAndReport(o.Y, e.Y, THRESHOLD)
    + compareAndReport(o.Cb, e.Cb, THRESHOLD)
    + compareAndReport(o.Cr, e.Cr, THRESHOLD)

---------------------------------------------------------------------------
(* hls::FIFO *)

FifoCanWrite(q) == Len(q) < FIFO_DEPTH

FifoCanRead(q) == Len(q) > 0

\* Mutant of FifoWrite: the item goes to the front.
FifoWrite_front(q, x) == <<x>> \o q

FifoWrite(q, x) == Append(q, x)

---------------------------------------------------------------------------
(* RGB2YCbCr_smarthls: one read, one conversion, one write *)

\* Mutant of RGB2YCbCr_smarthls: the input item is read but not removed.
RGB2YCbCr_smarthls_peek ==
    /\ FifoCanRead(input_fifo)
    /\ FifoCanWrite(output_fifo)
    /\ input_fifo' = input_fifo
    /\ output_fifo' = FifoWrite(output_fifo, Convert(Head(input_fifo)))

RGB2YCbCr_smarthls ==
    /\ FifoCanRead(input_fifo)
    /\ FifoCanWrite(output_fifo)
    /\ input_fifo' = Tail(input_fifo)
    /\ output_fifo' = FifoWrite(output_fifo, Convert(Head(input_fifo)))

---------------------------------------------------------------------------
(* main *)

Init ==
    /\ i = 0 /\ j = 0 /\ k = 0
    /\ in = RGB(0, 0, 0)
    /\ out = YCbCr(0, 0, 0)
    /\ ycbcr = YCbCr(0, 0, 0)
    /\ input_fifo = << >>
    /\ output_fifo = << >>
    /\ err = 0
    /\ pc = "write"
    /\ verdict = "none"
    /\ hist = << >>
    /\ outs = << >>

\* Lines 100-104: in = (i, j, k); input_fifo.write(in).
MainWrite ==
    /\ pc = "write"
    /\ FifoCanWrite(input_fifo)
    /\ in' = RGB(i, j, k)
    /\ input_fifo' = FifoWrite(input_fifo, RGB(i, j, k))
    /\ pc' = "hls"
    /\ UNCHANGED <<i, j, k, out, ycbcr, output_fifo, err, verdict, hist, outs>>

\* Line 105.
MainHls ==
    /\ pc = "hls"
    /\ RGB2YCbCr_smarthls
    /\ pc' = "read"
    /\ UNCHANGED <<i, j, k, in, out, ycbcr, err, verdict, hist, outs>>

\* Line 106: out = output_fifo.read().
MainRead ==
    /\ pc = "read"
    /\ FifoCanRead(output_fifo)
    /\ out' = Head(output_fifo)
    /\ output_fifo' = Tail(output_fifo)
    /\ pc' = "check"
    /\ UNCHANGED <<i, j, k, in, ycbcr, input_fifo, err, verdict, hist, outs>>

\* Lines 108-115: the reference call and the three comparisons.
CheckBody ==
    /\ ycbcr' = RGB2YCbCr_sw(in)
    /\ err' = err + Mismatches(out, RGB2YCbCr_sw(in))

\* Lines 97-99 and 116-118: the increments and tests of the three loops.
MainCheck ==
    /\ pc = "check"
    /\ CheckBody
    /\ IF k + 1 < SWEEP
         THEN k' = k + 1 /\ UNCHANGED <<i, j>>
         ELSE IF j + 1 < SWEEP
                THEN k' = 0 /\ j' = j + 1 /\ UNCHANGED i
                ELSE k' = 0 /\ j' = 0 /\ i' = i + 1
    /\ pc' = IF k + 1 < SWEEP \/ j + 1 < SWEEP \/ i + 1 < SWEEP
               THEN "write" ELSE "summary"
    /\ UNCHANGED <<in, out, input_fifo, output_fifo, verdict, hist, outs>>

\* Lines 120-128.
MainSummary ==
    /\ pc = "summary"
    /\ verdict' = IF err = 0 THEN "PASS" ELSE "FAIL"
    /\ pc' = "done"
    /\ UNCHANGED <<i, j, k, in, out, ycbcr, input_fifo, output_fifo, err, hist, outs>>

Next == MainWrite \/ MainHls \/ MainRead \/ MainCheck \/ MainSummary

Spec == Init /\ [][Next]_vars

---------------------------------------------------------------------------
(* The loop body of main on one arbitrary 8-bit sample: the converters and *)
(* the comparator as functions of their input.                             *)

GridStep == 5

\* Channel values 0, GridStep, 2*GridStep, ... and the largest, 255.
Grid == {v \in 0..MaxRGB : v % GridStep = 0} \cup {MaxRGB}

InitConv ==
    /\ i = 0 /\ j = 0 /\ k = 0
    /\ in \in {RGB(r, g, b) : r \in Grid, g \in Grid, b \in Grid}
    /\ out = YCbCr(0, 0, 0)
    /\ ycbcr = YCbCr(0, 0, 0)
    /\ input_fifo = << >>
    /\ output_fifo = << >>
    /\ err = 0
    /\ pc = "write"
    /\ verdict = "none"
    /\ hist = << >>
    /\ outs = << >>

\* Line 104 with the sample given.
ConvWrite ==
    /\ pc = "write"
    /\ FifoCanWrite(input_fifo)
    /\ input_fifo' = FifoWrite(input_fifo, in)
    /\ pc' = "hls"
    /\ UNCHANGED <<i, j, k, in, out, ycbcr, output_fifo, err, verdict, hist, outs>>

\* Lines 108-115, once.
ConvCheck ==
    /\ pc = "check"
    /\ CheckBody
    /\ pc' = "checked"
    /\ UNCHANGED <<i, j, k, in, out, input_fifo, output_fifo, verdict, hist, outs>>

NextConv == ConvWrite \/ MainHls \/ MainRead \/ ConvCheck

SpecConv == InitConv /\ [][NextConv]_vars

---------------------------------------------------------------------------
(* The loop body of main driven by an arbitrary finite sequence of samples *)
(* in place of the sweep of lines 97-102.                                  *)

MaxSamples == 3

AnySamples == {RGB(0, 0, 0), RGB(63, 63, 63), RGB(255, 255, 255), RGB(255, 0, 0)}

\* The sequence is empty (pc = "summary") or has a first sample.
InitAny ==
    /\ i = 0 /\ j = 0 /\ k = 0
    /\ in = RGB(0, 0, 0)
    /\ out = YCbCr(0, 0, 0)
    /\ ycbcr = YCbCr(0, 0, 0)
    /\ input_fifo = << >>
    /\ output_fifo = << >>
    /\ err = 0
    /\ pc \in {"write", "summary"}
    /\ verdict = "none"
    /\ hist = << >>
    /\ outs = << >>

AnyWrite ==
    /\ pc = "write"
    /\ FifoCanWrite(input_fifo)
    /\ \E s \in AnySamples :
          /\ in' = s
          /\ input_fifo' = FifoWrite(input_fifo, s)
          /\ hist' = Append(hist, s)
    /\ pc' = "hls"
    /\ UNCHANGED <<i, j, k, out, ycbcr, output_fifo, err, verdict, outs>>

AnyRead ==
    /\ pc = "read"
    /\ FifoCanRead(output_fifo)
    /\ out' = Head(output_fifo)
    /\ output_fifo' = Tail(output_fifo)
    /\ outs' = Append(outs, Head(output_fifo))
    /\ pc' = "check"
    /\ UNCHANGED <<i, j, k, in, ycbcr, input_fifo, err, verdict, hist>>

\* The loop goes on while the sequence has a next sample.
AnyCheck ==
    /\ pc = "check"
    /\ CheckBody
    /\ \/ Len(hist) < MaxSamples /\ pc' = "write"
       \/ pc' = "summary"
    /\ UNCHANGED <<i, j, k, in, out, input_fifo, output_fifo, verdict, hist, outs>>

NextAny == AnyWrite \/ MainHls \/ AnyRead \/ AnyCheck \/ MainSummary

SpecAny == InitAny /\ [][NextAny]_vars

\* main is one thread that runs its next statement until it returns.
FairSpecAny == SpecAny /\ WF_vars(NextAny)

---------------------------------------------------------------------------
(* RGB2YCbCr_smarthls called by an arbitrary producer and consumer: any    *)
(* interleaving of writes to input_fifo, steps and reads of output_fifo.   *)

MaxWrites == 6

StreamSamples == {RGB(0, 0, 0), RGB(100, 150, 200), RGB(255, 255, 255)}

InitStream ==
    /\ i = 0 /\ j = 0 /\ k = 0
    /\ in = RGB(0, 0, 0)
    /\ out = YCbCr(0, 0, 0)
    /\ ycbcr = YCbCr(0, 0, 0)
    /\ input_fifo = << >>
    /\ output_fifo = << >>
    /\ err = 0
    /\ pc = "stream"
    /\ verdict = "none"
    /\ hist = << >>
    /\ outs = << >>

StreamWrite ==
    /\ pc = "stream"
    /\ Len(hist) < MaxWrites
    /\ FifoCanWrite(input_fifo)
    /\ \E s \in StreamSamples :
          /\ input_fifo' = FifoWrite(input_fifo, s)
          /\ hist' = Append(hist, s)
    /\ UNCHANGED <<i, j, k, in, out, ycbcr, output_fifo, err, pc, verdict, outs>>

StreamStep ==
    /\ pc = "stream"
    /\ RGB2YCbCr_smarthls
    /\ UNCHANGED <<i, j, k, in, out, ycbcr, err, pc, verdict, hist, outs>>

StreamRead ==
    /\ pc = "stream"
    /\ FifoCanRead(output_fifo)
    /\ out' = Head(output_fifo)
    /\ output_fifo' = Tail(output_fifo)
    /\ outs' = Append(outs, Head(output_fifo))
    /\ UNCHANGED <<i, j, k, in, ycbcr, input_fifo, err, pc, verdict, hist>>

NextStream == StreamWrite \/ StreamStep \/ StreamRead

SpecStream == InitStream /\ [][NextStream]_vars

---------------------------------------------------------------------------
(* Properties *)

Channels == {"Y", "Cb", "Cr"}

\* The step of the current iteration has run on the sample in.
StepDone == pc \in {"read", "check", "checked"}

\* The comparison of the current sample has run: out and ycbcr belong to in.
Compared == pc = "checked"

Within(o, e) == \A c \in Channels : Abs(o[c] - e[c]) <= THRESHOLD

\* Raw range of a signed fixed-point value with iw integer bits and 6
\* fraction bits: [-2^(iw-1), 2^(iw-1) - 2^-6].
FitsInt(raw, iw) == -(2^(iw - 1)) * Scale <= raw /\ raw <= 2^(iw - 1) * Scale - 1

Intermediates(p) ==
    { ProdsY(p)[n] : n \in 1..3 } \cup { ProdsCb(p)[n] : n \in 1..3 }
    \cup { ProdsCr(p)[n] : n \in 1..3 } \cup { AccY(p), AccCb(p), AccCr(p) }

Shifted(p) == { Shr8(AccY(p)), Shr8(AccCb(p)), Shr8(AccCr(p)) }

\* C1 (as claimed): for every 8-bit input the fixed-point output is within
\* THRESHOLD = 5 of the reference output on each of Y, Cb and Cr.
C1_AllWithinThreshold == Compared => Within(out, ycbcr)

\* C2: the sweep of main over R, G, B in 0..63 never counts a mismatch:
\* every sample (taken as in = (i, j, k), k innermost) has all three
\* channels within the threshold, err stays 0 and the verdict is PASS.
C2_SweepPasses ==
    /\ err = 0
    /\ i \in 0..SWEEP /\ j \in 0..(SWEEP - 1) /\ k \in 0..(SWEEP - 1)
    /\ pc \in {"hls", "read", "check"} => in = RGB(i, j, k)
    /\ pc = "check" => Within(out, RGB2YCbCr_sw(in))
    /\ pc = "summary" => i = SWEEP
    /\ pc = "done" => verdict = "PASS"

C2_Witness ==
    pc = "done" /\ verdict = "PASS" /\ i = SWEEP
    /\ in = RGB(SWEEP - 1, SWEEP - 1, SWEEP - 1)

\* C3 (as claimed): for (100, 150, 200) the reference returns
\* (140, 161, 98) and the fixed-point output is within 5 of each value.
C3_Scenario ==
    (Compared /\ in = RGB(100, 150, 200)) =>
        (ycbcr = YCbCr(140, 161, 98) /\ Within(out, YCbCr(140, 161, 98)))

\* C4 (as claimed): the reference converter maps white (255, 255, 255) to
\* Y = 255, Cb = 128, Cr = 128.
C4_WhitePoint ==
    (Compared /\ in = RGB(MaxRGB, MaxRGB, MaxRGB)) => ycbcr = YCbCr(255, 128, 128)

C5_Order ==
    outs \o output_fifo \o [n \in 1..Len(input_fifo) |-> Convert(input_fifo[n])]
        = [n \in 1..Len(hist) |-> Convert(hist[n])]

C5_StepEffect ==
    (input_fifo' # input_fifo /\ output_fifo' # output_fifo) =>
        /\ FifoCanRead(input_fifo) /\ FifoCanWrite(output_fifo)
        /\ input_fifo' = Tail(input_fifo)
        /\ Len(output_fifo') = Len(output_fifo) + 1
        /\ SubSeq(output_fifo', 1, Len(output_fifo)) = output_fifo
        /\ output_fifo'[Len(output_fifo')] = Convert(Head(input_fifo))

\* C5: a step on a non-empty input channel and a non-full output channel
\* removes exactly the oldest input item and appends exactly one output
\* item, the conversion of the item removed; hence at every moment the
\* outputs read so far, followed by the output channel, followed by the
\* conversions of the input channel, are the conversions of the inputs
\* written so far, in the order they were written.
C5_StepFifo == []C5_Order /\ [][C5_StepEffect]_vars

C5_Witness ==
    /\ Len(outs) >= 2 /\ outs[1] # outs[2]
    /\ Len(output_fifo) >= 1 /\ Len(input_fifo) >= 1
    /\ output_fifo[1] # Convert(input_fifo[1])

MismatchCount(s) ==
    Cardinality({c \in Channels : Abs(Convert(s)[c] - RGB2YCbCr_sw(s)[c]) > THRESHOLD})

RECURSIVE TotalMismatch(_, _)
TotalMismatch(h, n) == IF n = 0 THEN 0 ELSE TotalMismatch(h, n - 1) + MismatchCount(h[n])

\* The number of samples whose comparison has run.
Handled == IF pc \in {"hls", "read", "check"} THEN Len(hist) - 1 ELSE Len(hist)

C7_Count ==
    /\ err = TotalMismatch(hist, Handled)
    /\ outs = [n \in 1..Len(outs) |-> Convert(hist[n])]
    /\ Len(outs) = IF pc \in {"hls", "read"} THEN Len(hist) - 1 ELSE Len(hist)
    /\ pc = "done" => (verdict = "PASS" <=> err = 0) /\ verdict \in {"PASS", "FAIL"}

C7_Step ==
    /\ err' >= err /\ err' <= err + 3
    /\ hist = SubSeq(hist', 1, Len(hist))

\* C7: on any finite input sequence the harness handles every sample in
\* order, a mismatch never ends the run, each comparison step adds between
\* 0 and 3 to err (0 or 1 per channel), err equals the number of (sample,
\* channel) pairs handled so far whose difference exceeds the threshold,
\* the run reaches its end after the last sample, and the verdict is PASS
\* exactly when err = 0.
C7_Harness == []C7_Count /\ [][C7_Step]_vars /\ <>(pc = "done")

C7_Witness ==
    /\ pc = "done" /\ verdict = "FAIL"
    /\ Len(hist) >= 2 /\ Len(outs) = Len(hist)
    /\ MismatchCount(hist[1]) > 0 /\ MismatchCount(hist[2]) = 0
    /\ err = TotalMismatch(hist, Len(hist))

\* C8: in the run of main both channels hold at most one item, both are
\* empty at the start of every iteration, and each write, step and read
\* finds the room or the item it needs, so none of them waits.
C8_NeverBlocks ==
    /\ Len(input_fifo) <= 1 /\ Len(output_fifo) <= 1 /\ 1 < FIFO_DEPTH
    /\ pc = "write" => input_fifo = << >> /\ output_fifo = << >>
    /\ pc = "write" => FifoCanWrite(input_fifo)
    /\ pc = "hls" => FifoCanRead(input_fifo) /\ FifoCanWrite(output_fifo)
    /\ pc = "read" => FifoCanRead(output_fifo)
    /\ pc \in {"check", "summary", "done"} => input_fifo = << >> /\ output_fifo = << >>

C8_Witness ==
    /\ pc = "read" /\ i = 0 /\ j = 1 /\ k = 1
    /\ input_fifo = << >> /\ output_fifo = << Convert(RGB(0, 1, 1)) >>

\* C9 (as claimed): every coefficient-times-channel product and every
\* three-term accumulator, before the shift, fits the Q12.6 range.
C9_FitsQ12_6 ==
    StepDone => \A x \in Intermediates(in) : FitsInt(x, FIXPT_IW)

\* C9 (amended): every product and every accumulator before the shift fits
\* a signed range of 20 integer bits (the integer width of the product of
\* a Q12.6 value and an 8-bit value), and every accumulator after the
\* right shift by 8 fits the Q12.6 range.
C9_FitsProductType ==
    StepDone =>
        /\ \A x \in Intermediates(in) : FitsInt(x, FIXPT_IW + RGB_BITWIDTH)
        /\ \A x \in Shifted(in) : FitsInt(x, FIXPT_IW)

C9_Witness ==
    /\ Compared /\ in = RGB(MaxRGB, MaxRGB, MaxRGB)
    /\ ~FitsInt(AccY(in), FIXPT_IW) /\ ~FitsInt(ProdsY(in)[2], FIXPT_IW)

C10_InRange ==
    StepDone =>
        \A x \in {FixY(in), FixCb(in), FixCr(in)} : 0 <= x /\ x < 2^YCBCR_BITWIDTH * Scale

C10_OutIsIntegerPart ==
    (pc \in {"check", "checked"}) =>
        /\ out.Y * Scale <= FixY(in) /\ FixY(in) < (out.Y + 1) * Scale
        /\ out.Cb * Scale <= FixCb(in) /\ FixCb(in) < (out.Cb + 1) * Scale
        /\ out.Cr * Scale <= FixCr(in) /\ FixCr(in) < (out.Cr + 1) * Scale

\* C10: for every 8-bit input the final fixed-point value of Y, Cb and Cr
\* (before narrowing) lies in [0, 256), so each output field is its
\* integer part and the narrowing to 8 bits never wraps.
C10_NoWrap == C10_InRange /\ C10_OutIsIntegerPart

C10_Witness ==
    Compared /\ in = RGB(0, 0, MaxRGB) /\ out.Cb = 240 /\ FixCb(in) = 240 * Scale + 32

=============================================================================
